---- MODULE Spec2Model ----
(***************************************************************************)
(* Post-operative recovery pipeline of notebooks/rehab_using_V1.ipynb      *)
(* (single patient) and notebooks/rehab_using_V2.ipynb (batch).            *)
(*                                                                         *)
(* Real-valued scores are fixed-point integers in units of 1/ScoreScale.   *)
(* The three pretrained models are opaque: a prediction is a value drawn   *)
(* from a bounded set of outputs, or an exception.                         *)
(***************************************************************************)
EXTENDS Integers, Sequences, FiniteSets, TLC

VARIABLES
    \* ---- V2 cell 3: compute_recovery_metrics(df) ----
    treadmill,      \* df: the treadmill samples, a sequence of rows
    epc,            \* position in compute_recovery_metrics
    pending,        \* group keys the for-loop has not visited yet
    seen,           \* per visited key, the sorted and NaN-dropped group
    results,        \* results: the list of marker dicts
    \* ---- V1 cell 4: validate_features(input_df, required_cols, model_name) ----
    input_columns,  \* input_df.columns
    required_cols,  \* required_cols
    vpc,            \* position in validate_features
    verror,         \* the list carried by the raised ValueError
    \* ---- V1 cells 5-7: the single-patient run ----
    v1,             \* the notebook's globals and the cell that runs next
    \* ---- V2 cells 5-6: the batch run ----
    X_card_base,    \* the background cardiac feature table
    X_mob_base,     \* the background mobility feature table
    patients_df,    \* the patients to simulate, a sequence of rows
    row_i,          \* i: how many rows the for-loop has completed
    loc,            \* the loop body's variables, as the last pass left them
    all_reports,    \* all_reports: the list of report dicts
    report_df,      \* the exported table
    bpc,            \* position in the batch run
    \* ---- V2 cell 4: cleaning of the wearable table ----
    wearable_merged,   \* the merged wearable table, column name -> cells
    wearable_cleaned,  \* the cleaned table
    recleaned,         \* the cleaning applied to the cleaned table
    cpc                \* position in the cleaning

vars == <<treadmill, epc, pending, seen, results,
          input_columns, required_cols, vpc, verror,
          v1, X_card_base, X_mob_base, patients_df, row_i, loc, all_reports, report_df, bpc,
          wearable_merged, wearable_cleaned, recleaned, cpc>>

extractVars == <<treadmill, epc, pending, seen, results>>
validateVars == <<input_columns, required_cols, vpc, verror>>
batchVars == <<X_card_base, X_mob_base, patients_df, row_i, loc, all_reports, report_df, bpc>>
cleanVars == <<wearable_merged, wearable_cleaned, recleaned, cpc>>

(***************************************************************************)
(* Helpers                                                                 *)
(***************************************************************************)
Range(s) == {s[i] : i \in 1..Len(s)}

MaxOf(S) == CHOOSE m \in S : \A x \in S : x <= m

MinOf(S) == CHOOSE m \in S : \A x \in S : m <= x

\* The sequences over S of length 0..n.
SeqUpTo(S, n) == UNION {[1..k -> S] : k \in 0..n}

\* The elements of a finite set of integers in ascending order.
RECURSIVE SortedSeq(_)
SortedSeq(S) == IF S = {} THEN <<>> ELSE <<MinOf(S)>> \o SortedSeq(S \ {MinOf(S)})

\* Scores are counted in units of 1/ScoreScale.
ScoreScale == 1000

\* int(a / b) for b > 0: the quotient truncated toward zero.
IntTrunc(a, b) == IF a >= 0 THEN a \div b ELSE -((-a) \div b)

\* round(a / b) for b > 0: to the nearest integer, a tie to the even one.
RoundHalfEven(a, b) ==
    LET q == a \div b
        r == a % b
    IN  IF 2 * r < b THEN q
        ELSE IF 2 * r > b THEN q + 1
        ELSE IF q % 2 = 0 THEN q ELSE q + 1

\* round(score, 2), in hundredths.
Round2(score) == RoundHalfEven(score * 100, ScoreScale)

Min2(a, b) == IF a <= b THEN a ELSE b

Max2(a, b) == IF a >= b THEN a ELSE b

\* "; ".join(lines)
RECURSIVE Join(_)
Join(lines) ==
    IF lines = <<>> THEN ""
    ELSE IF Len(lines) = 1 THEN lines[1]
    ELSE lines[1] \o "; " \o Join(Tail(lines))

\* The V1 globals before cell 5 has run.
V1Idle ==
    [pc |-> "idle", cardiac_score |-> 0, mobility_score |-> 0, final_score |-> 0,
     cardiac_percentile |-> 0, mobility_percentile |-> 0, recovery_days |-> 0,
     recommendations |-> <<>>]

\* The batch loop's variables before its first pass.
LocIdle ==
    [ecg_row |-> <<>>, mob_row |-> <<>>, cardiac_score |-> 0, mobility_score |-> 0,
     final_score |-> 0, recovery_days |-> 0, suggestions |-> <<>>]

(***************************************************************************)
(* V2 cell 3: compute_recovery_metrics                                     *)
(***************************************************************************)
MaxSamples == 3

\* The post-peak window of hr_rec, "t_max + 60".
RecoveryWindow == 60

SessionIds == {1, 2}
Times == {0, 30, 90}

\* The measurements of one sample; nulls are the columns that hold NaN.
Readings ==
    { [VO2 |-> 0, HR |-> 2, VE |-> 1, nulls |-> {}],
      [VO2 |-> 1, HR |-> 1, VE |-> 2, nulls |-> {}],
      [VO2 |-> 3, HR |-> 3, VE |-> 1, nulls |-> {"VO2"}] }

\* In the treadmill table a test id belongs to one subject.
SubjectOf(test_id) == 100 + test_id

Samples ==
    { [ID_test |-> s, ID |-> SubjectOf(s), time |-> t,
       VO2 |-> r.VO2, HR |-> r.HR, VE |-> r.VE, nulls |-> r.nulls] :
      s \in SessionIds, t \in Times, r \in Readings }

\* df.groupby("ID_test"): the keys in ascending order.
GroupKeys(df) == SortedSeq({df[i].ID_test : i \in 1..Len(df)})

\* The rows of one group, in the order of df.
GroupOf(df, test_id) == SelectSeq(df, LAMBDA r : r.ID_test = test_id)

\* sort_values(by="time"): quicksort is not stable, so rows with equal time
\* may come out in any order. The set of orders the sort can produce.
SortedByTime(group) ==
    LET n == Len(group)
        perms == {p \in [1..n -> 1..n] : \A i, j \in 1..n : i # j => p[i] # p[j]}
    IN  { [i \in 1..n |-> group[p[i]]] :
          p \in {q \in perms : \A i \in 1..(n - 1) :
                                  group[q[i]].time <= group[q[i + 1]].time} }

\* dropna(subset=["VO2", "HR", "VE"])
DropNa(group) == SelectSeq(group, LAMBDA r : r.nulls \cap {"VO2", "HR", "VE"} = {})

\* Series.idxmax(): the first row that attains the maximum.
IdxMaxHR(group) ==
    MinOf({i \in 1..Len(group) : group[i].HR = MaxOf({group[j].HR : j \in 1..Len(group)})})

IdxMaxVO2(group) ==
    MinOf({i \in 1..Len(group) : group[i].VO2 = MaxOf({group[j].VO2 : j \in 1..Len(group)})})

\* Variant: the rows strictly later than t_max + 60.
RowsAfterPeakOutside(group, t_max) ==
    SelectSeq(group, LAMBDA r : r.time > t_max + RecoveryWindow)

\* group[group["time"] >= t_max + 60]
RowsAfterPeak(group, t_max) ==
    SelectSeq(group, LAMBDA r : r.time >= t_max + RecoveryWindow)

\* numpy float division: a zero divisor gives inf or nan with a warning and
\* raises nothing. A finite quotient is kept as the exact fraction num/den.
NumpyDivide(num, den) ==
    [kind |-> IF den # 0 THEN "finite" ELSE IF num = 0 THEN "nan" ELSE "inf",
     num  |-> num,
     den  |-> den]

\* The try block of one group: the markers, or the exception it raises.
TryMarkers(group) ==
    LET max_vo2 == MaxOf({group[j].VO2 : j \in 1..Len(group)})
        max_hr  == MaxOf({group[j].HR : j \in 1..Len(group)})
        t_max   == group[IdxMaxHR(group)].time
        after   == RowsAfterPeak(group, t_max)
        ve_vo2  == NumpyDivide(group[IdxMaxVO2(group)].VE, max_vo2)
    IN  IF after = <<>>
        THEN [raised |-> TRUE]                                \* .iloc[0]: IndexError
        ELSE [raised |-> FALSE,
              max_vo2 |-> max_vo2,
              hr_rec  |-> max_hr - after[1].HR,
              ve_vo2  |-> ve_vo2]

\* Variant: the loop body without the try/except around the markers.
SessionOutcomeUncaught(group) ==
    IF group = <<>> THEN [kind |-> "skip"]
    ELSE IF TryMarkers(group).raised THEN [kind |-> "raise"]
    ELSE [kind |-> "row",
          row  |-> [Subject_ID |-> group[1].ID,
                    VO2_max |-> TryMarkers(group).max_vo2,
                    HR_recovery_1min |-> TryMarkers(group).hr_rec,
                    VE_VO2_ratio |-> TryMarkers(group).ve_vo2]]

\* One pass of the for-loop body over a sorted, NaN-dropped group.
SessionOutcome(group) ==
    IF group = <<>> THEN [kind |-> "skip"]                    \* if group.empty: continue
    ELSE IF TryMarkers(group).raised THEN [kind |-> "skip"]   \* except: continue
    ELSE [kind |-> "row",
          row  |-> [Subject_ID |-> group[1].ID,               \* sid = group["ID"].iloc[0]
                    VO2_max |-> TryMarkers(group).max_vo2,
                    HR_recovery_1min |-> TryMarkers(group).hr_rec,
                    VE_VO2_ratio |-> TryMarkers(group).ve_vo2]]

\* grouped = df.groupby("ID_test"); results = []
GroupBy ==
    /\ epc = "groupby"
    /\ pending' = GroupKeys(treadmill)
    /\ epc' = "loop"
    /\ UNCHANGED <<treadmill, seen, results>>
    /\ UNCHANGED <<validateVars, v1, batchVars, cleanVars>>

\* One iteration of "for test_id, group in grouped".
ProcessSession ==
    /\ epc = "loop"
    /\ pending # <<>>
    /\ \E sorted \in SortedByTime(GroupOf(treadmill, Head(pending))) :
          LET group == DropNa(sorted)
              out   == SessionOutcome(group)
          IN  /\ seen' = Append(seen, [test_id |-> Head(pending), group |-> group])
              /\ pending' = Tail(pending)
              /\ results' = IF out.kind = "row" THEN Append(results, out.row) ELSE results
              /\ epc' = IF out.kind = "raise" THEN "raised" ELSE "loop"
    /\ UNCHANGED treadmill
    /\ UNCHANGED <<validateVars, v1, batchVars, cleanVars>>

\* return pd.DataFrame(results)
ReturnResults ==
    /\ epc = "loop"
    /\ pending = <<>>
    /\ epc' = "returned"
    /\ UNCHANGED <<treadmill, pending, seen, results>>
    /\ UNCHANGED <<validateVars, v1, batchVars, cleanVars>>

ExtractNext == GroupBy \/ ProcessSession \/ ReturnResults

\* The state when compute_recovery_metrics(treadmill) is called.
ExtractInit ==
    /\ treadmill \in SeqUpTo(Samples, MaxSamples)
    /\ epc = "groupby"
    /\ pending = <<>>
    /\ seen = <<>>
    /\ results = <<>>
    /\ input_columns = {}
    /\ required_cols = <<>>
    /\ vpc = "idle"
    /\ verror = <<>>
    /\ v1 = V1Idle
    /\ X_card_base = <<>>
    /\ X_mob_base = <<>>
    /\ patients_df = <<>>
    /\ row_i = 0
    /\ loc = LocIdle
    /\ all_reports = <<>>
    /\ report_df = <<>>
    /\ bpc = "idle"
    /\ wearable_merged = <<>>
    /\ wearable_cleaned = <<>>
    /\ recleaned = <<>>
    /\ cpc = "idle"

SpecExtract == ExtractInit /\ [][ExtractNext]_vars

(***************************************************************************)
(* V1 cells 5-7: predict, translate to clinical terms, console report      *)
(***************************************************************************)
\* The score h/100 in units of 1/ScoreScale.
Hundredths(h) == (h * ScoreScale) \div 100

\* What the three models may return in the single-patient run.
V1CardiacOutputs ==
    {Hundredths(-321), Hundredths(-60), Hundredths(1000), Hundredths(3999),
     Hundredths(4000), Hundredths(15000)}

V1MobilityOutputs ==
    {Hundredths(100), Hundredths(9999), Hundredths(10000), Hundredths(20000)}

V1MetaOutputs ==
    {Hundredths(-10000), Hundredths(-139), 0, Hundredths(99), Hundredths(100),
     Hundredths(150), Hundredths(199), Hundredths(200), Hundredths(300),
     Hundredths(301), Hundredths(10000)}

\* Variant: the quotient rounded to the nearest integer.
ScoreToPercentileRounded(score, scale) ==
    Min2(RoundHalfEven(score * 100, scale * ScoreScale), 100)

\* def score_to_percentile(score, scale=100): min(int((score / scale) * 100), 100)
ScoreToPercentile(score, scale) ==
    Min2(IntTrunc(score * 100, scale * ScoreScale), 100)

\* Variant: the bucket limits 1 and 2 taken with <=.
RecoveryDaysV1Inclusive(final_score) ==
    IF final_score <= 1 * ScoreScale THEN 60
    ELSE IF final_score <= 2 * ScoreScale THEN 90
    ELSE 120

\* if final_score < 1: 60 / elif final_score < 2: 90 / else: 120
RecoveryDaysV1(final_score) ==
    IF final_score < 1 * ScoreScale THEN 60
    ELSE IF final_score < 2 * ScoreScale THEN 90
    ELSE 120

\* The recommendation lines of the console report.
RecommendationsV1(cardiac_score, mobility_score) ==
    (IF cardiac_score < 40 * ScoreScale
        THEN <<"Increase supervised cardio rehab">> ELSE <<>>)
    \o (IF mobility_score < 100 * ScoreScale
        THEN <<"Continue mobility strengthening exercises">>
        ELSE <<"Maintain mobility and monitor gait changes">>)

\* Cell 5: the three predictions.
V1Predict ==
    /\ v1.pc = "predict"
    /\ \E c \in V1CardiacOutputs, m \in V1MobilityOutputs, f \in V1MetaOutputs :
          v1' = [v1 EXCEPT !.pc = "translate",
                           !.cardiac_score = c,
                           !.mobility_score = m,
                           !.final_score = f]
    /\ UNCHANGED <<extractVars, validateVars, batchVars, cleanVars>>

\* Cell 5 when a model invocation raises: the cell stops there.
V1PredictRaises ==
    /\ v1.pc = "predict"
    /\ \/ v1' = [v1 EXCEPT !.pc = "raised"]
       \/ \E c \in V1CardiacOutputs :
             v1' = [v1 EXCEPT !.pc = "raised", !.cardiac_score = c]
       \/ \E c \in V1CardiacOutputs, m \in V1MobilityOutputs :
             v1' = [v1 EXCEPT !.pc = "raised", !.cardiac_score = c, !.mobility_score = m]
    /\ UNCHANGED <<extractVars, validateVars, batchVars, cleanVars>>

\* Cell 6: percentiles and the bucketed recovery days.
V1Translate ==
    /\ v1.pc = "translate"
    /\ v1' = [v1 EXCEPT !.pc = "report",
                        !.cardiac_percentile = ScoreToPercentile(v1.cardiac_score, 120),
                        !.mobility_percentile = ScoreToPercentile(v1.mobility_score, 160),
                        !.recovery_days = RecoveryDaysV1(v1.final_score)]
    /\ UNCHANGED <<extractVars, validateVars, batchVars, cleanVars>>

\* Cell 7: the console report.
V1Report ==
    /\ v1.pc = "report"
    /\ v1' = [v1 EXCEPT !.pc = "done",
                        !.recommendations =
                            RecommendationsV1(v1.cardiac_score, v1.mobility_score)]
    /\ UNCHANGED <<extractVars, validateVars, batchVars, cleanVars>>

V1Next == V1Predict \/ V1PredictRaises \/ V1Translate \/ V1Report

\* The state when cell 5 is about to run.
V1Init ==
    /\ v1 = [V1Idle EXCEPT !.pc = "predict"]
    /\ treadmill = <<>>
    /\ epc = "idle"
    /\ pending = <<>>
    /\ seen = <<>>
    /\ results = <<>>
    /\ input_columns = {}
    /\ required_cols = <<>>
    /\ vpc = "idle"
    /\ verror = <<>>
    /\ X_card_base = <<>>
    /\ X_mob_base = <<>>
    /\ patients_df = <<>>
    /\ row_i = 0
    /\ loc = LocIdle
    /\ all_reports = <<>>
    /\ report_df = <<>>
    /\ bpc = "idle"
    /\ wearable_merged = <<>>
    /\ wearable_cleaned = <<>>
    /\ recleaned = <<>>
    /\ cpc = "idle"

SpecV1 == V1Init /\ [][V1Next]_vars

(***************************************************************************)
(* V2 cells 5-6: the batch loop over patients_df and the export            *)
(***************************************************************************)
MaxPatients == 2

\* A patient row with every field, and one whose file lacks the Cadence column.
PatientRows ==
    { [VO2_max |-> 30, HR_recovery_1min |-> 20, VE_VO2_ratio |-> 3,
       Velocity_kmph |-> 4, Cadence |-> 110, Stride_time |-> 1],
      [VO2_max |-> 30, HR_recovery_1min |-> 20, VE_VO2_ratio |-> 3,
       Velocity_kmph |-> 4, Stride_time |-> 1] }

\* The background tables X_card_base and X_mob_base, two rows each.
CardBaseTable ==
    << [VO2_max |-> 1, HR_recovery_1min |-> 1, VE_VO2_ratio |-> 1, background |-> 7],
       [VO2_max |-> 2, HR_recovery_1min |-> 2, VE_VO2_ratio |-> 2, background |-> 8] >>

MobBaseTable ==
    << ("Velocity, km/h" :> 1) @@ ("Cadence, steps/min" :> 1) @@
       ("Stride time, s" :> 1) @@ ("background" :> 7),
       ("Velocity, km/h" :> 2) @@ ("Cadence, steps/min" :> 2) @@
       ("Stride time, s" :> 2) @@ ("background" :> 8) >>

\* The assignments of "Inject test data", in program order.
Injections ==
    << [frame |-> "ecg_row", col |-> "VO2_max",            key |-> "VO2_max"],
       [frame |-> "ecg_row", col |-> "HR_recovery_1min",   key |-> "HR_recovery_1min"],
       [frame |-> "ecg_row", col |-> "VE_VO2_ratio",       key |-> "VE_VO2_ratio"],
       [frame |-> "mob_row", col |-> "Velocity, km/h",     key |-> "Velocity_kmph"],
       [frame |-> "mob_row", col |-> "Cadence, steps/min", key |-> "Cadence"],
       [frame |-> "mob_row", col |-> "Stride time, s",     key |-> "Stride_time"] >>

\* Variant: the frame is rebuilt from the assigned column alone.
SetColumnFresh(frame, col, value) == (col :> value)

\* frame[col] = value on a one-row frame: the column takes the value (it is
\* added when the frame lacks it) and the other columns keep theirs.
SetColumn(frame, col, value) == (col :> value) @@ frame

\* X_base.sample(1).copy(): the sampled row k is a copy of its own, so what is
\* written to it afterwards does not reach the table.
BaseAfterPass(table, k, written) == table

\* Runs the assignments in order; row[key] raises KeyError on an absent key
\* and the assignments before it stay done.
RECURSIVE Inject(_, _, _)
Inject(frames, row, todo) ==
    IF todo = <<>> THEN [frames |-> frames, raised |-> FALSE]
    ELSE LET a == Head(todo)
         IN  IF a.key \notin DOMAIN row
             THEN [frames |-> frames, raised |-> TRUE]
             ELSE Inject([frames EXCEPT ![a.frame] = SetColumn(@, a.col, row[a.key])],
                         row, Tail(todo))

\* What the three models may return for one patient of the batch.
BatchCardiacOutputs ==
    {10 * ScoreScale, 40 * ScoreScale, 50 * ScoreScale, 80 * ScoreScale,
     80 * ScoreScale + 1}

BatchMobilityOutputs ==
    {10 * ScoreScale, 100 * ScoreScale, 120 * ScoreScale, 120 * ScoreScale + 1,
     140 * ScoreScale, 140 * ScoreScale + 1}

BatchMetaOutputs ==
    {-100 * ScoreScale, 0, 1, Hundredths(150), 3 * ScoreScale, 3 * ScoreScale + 1,
     100 * ScoreScale}

BatchPredictions ==
    { [cardiac |-> c, mobility |-> m, meta |-> Hundredths(150)] :
      c \in BatchCardiacOutputs, m \in BatchMobilityOutputs }
    \cup
    { [cardiac |-> 10 * ScoreScale, mobility |-> 10 * ScoreScale, meta |-> f] :
      f \in BatchMetaOutputs }

\* final_score = min(max(final_score, 0), 3)
ClampFinal(raw) == Min2(Max2(raw, 0), 3 * ScoreScale)

\* Variant: the days rounded to the nearest integer.
RecoveryDaysV2Rounded(final_score) ==
    RoundHalfEven(180 * ScoreScale - final_score * 50, ScoreScale)

\* recovery_days = int(180 - final_score * 50)
RecoveryDaysV2(final_score) ==
    IntTrunc(180 * ScoreScale - final_score * 50, ScoreScale)

\* Variant: the fourth rule asks for either of its two conditions.
SuggestionsV2RuleFourEither(cardiac_score, mobility_score) ==
    (IF cardiac_score < 40 * ScoreScale
        THEN <<"Increase supervised cardio rehab">> ELSE <<>>)
    \o (IF mobility_score < 100 * ScoreScale
        THEN <<"Continue mobility strengthening">> ELSE <<>>)
    \o (IF cardiac_score > 80 * ScoreScale /\ mobility_score > 140 * ScoreScale
        THEN <<"Ready for transition to independent rehab">> ELSE <<>>)
    \o (IF mobility_score > 120 * ScoreScale \/ cardiac_score < 50 * ScoreScale
        THEN <<"High mobility, monitor cardiac stress tolerance">> ELSE <<>>)

\* Variant: the rules as one if/elif chain, the first that holds ending it.
SuggestionsV2EarlyExit(cardiac_score, mobility_score) ==
    IF cardiac_score < 40 * ScoreScale
        THEN <<"Increase supervised cardio rehab">>
    ELSE IF mobility_score < 100 * ScoreScale
        THEN <<"Continue mobility strengthening">>
    ELSE IF cardiac_score > 80 * ScoreScale /\ mobility_score > 140 * ScoreScale
        THEN <<"Ready for transition to independent rehab">>
    ELSE IF mobility_score > 120 * ScoreScale /\ cardiac_score < 50 * ScoreScale
        THEN <<"High mobility, monitor cardiac stress tolerance">>
    ELSE <<>>

\* The four recommendation rules, four independent if statements.
SuggestionsV2(cardiac_score, mobility_score) ==
    (IF cardiac_score < 40 * ScoreScale
        THEN <<"Increase supervised cardio rehab">> ELSE <<>>)
    \o (IF mobility_score < 100 * ScoreScale
        THEN <<"Continue mobility strengthening">> ELSE <<>>)
    \o (IF cardiac_score > 80 * ScoreScale /\ mobility_score > 140 * ScoreScale
        THEN <<"Ready for transition to independent rehab">> ELSE <<>>)
    \o (IF mobility_score > 120 * ScoreScale /\ cardiac_score < 50 * ScoreScale
        THEN <<"High mobility, monitor cardiac stress tolerance">> ELSE <<>>)

\* The dict appended to all_reports.
Report(patient_id, row, cardiac_score, mobility_score, final_score, recovery_days, suggestions) ==
    [Patient_ID       |-> patient_id,
     VO2_max          |-> row.VO2_max,
     HR_recovery_1min |-> row.HR_recovery_1min,
     VE_VO2_ratio     |-> row.VE_VO2_ratio,
     Velocity         |-> row.Velocity_kmph,
     Cadence          |-> row.Cadence,
     Stride_time      |-> row.Stride_time,
     Cardiac_Score    |-> Round2(cardiac_score),
     Mobility_Score   |-> Round2(mobility_score),
     Final_Score      |-> Round2(final_score),
     Recovery_Days    |-> recovery_days,
     Suggestions      |-> Join(suggestions)]

\* One pass of "for i, row in patients_df.iterrows()" that reaches its end.
\* The SHAP plot of the pass is presentation and leaves the state alone.
ScorePatient ==
    /\ bpc = "loop"
    /\ row_i < Len(patients_df)
    /\ \E e \in 1..Len(X_card_base), m \in 1..Len(X_mob_base), p \in BatchPredictions :
          LET row   == patients_df[row_i + 1]
              inj   == Inject([ecg_row |-> X_card_base[e], mob_row |-> X_mob_base[m]],
                              row, Injections)
              final == ClampFinal(p.meta)
              days  == RecoveryDaysV2(final)
              sugg  == SuggestionsV2(p.cardiac, p.mobility)
          IN  /\ ~inj.raised
              /\ loc' = [ecg_row |-> inj.frames.ecg_row,
                         mob_row |-> inj.frames.mob_row,
                         cardiac_score |-> p.cardiac,
                         mobility_score |-> p.mobility,
                         final_score |-> final,
                         recovery_days |-> days,
                         suggestions |-> sugg]
              /\ all_reports' = Append(all_reports,
                     Report(row_i + 1, row, p.cardiac, p.mobility, final, days, sugg))
              /\ X_card_base' = BaseAfterPass(X_card_base, e, inj.frames.ecg_row)
              /\ X_mob_base' = BaseAfterPass(X_mob_base, m, inj.frames.mob_row)
    /\ row_i' = row_i + 1
    /\ UNCHANGED <<patients_df, report_df, bpc>>
    /\ UNCHANGED <<extractVars, validateVars, v1, cleanVars>>

\* A pass that raises: a KeyError on an absent patient field, or an exception
\* out of one of the three model invocations. Nothing catches it, the loop and
\* the cell end there, and the variables assigned so far keep their values.
ScorePatientRaises ==
    /\ bpc = "loop"
    /\ row_i < Len(patients_df)
    /\ \E e \in 1..Len(X_card_base), m \in 1..Len(X_mob_base) :
          LET row == patients_df[row_i + 1]
              inj == Inject([ecg_row |-> X_card_base[e], mob_row |-> X_mob_base[m]],
                            row, Injections)
              injected == [loc EXCEPT !.ecg_row = inj.frames.ecg_row,
                                      !.mob_row = inj.frames.mob_row]
          IN  /\ X_card_base' = BaseAfterPass(X_card_base, e, inj.frames.ecg_row)
              /\ X_mob_base' = BaseAfterPass(X_mob_base, m, inj.frames.mob_row)
              /\ \/ /\ inj.raised                      \* row[key]: KeyError
                    /\ loc' = injected
                 \/ /\ ~inj.raised                     \* cardiac_model.predict raises
                    /\ loc' = injected
                 \/ /\ ~inj.raised                     \* mobility_model.predict raises
                    /\ \E c \in BatchCardiacOutputs :
                          loc' = [injected EXCEPT !.cardiac_score = c]
                 \/ /\ ~inj.raised                     \* meta_model.predict raises
                    /\ \E c \in BatchCardiacOutputs, mo \in BatchMobilityOutputs :
                          loc' = [injected EXCEPT !.cardiac_score = c,
                                                  !.mobility_score = mo]
    /\ bpc' = "raised"
    /\ UNCHANGED <<patients_df, row_i, all_reports, report_df>>
    /\ UNCHANGED <<extractVars, validateVars, v1, cleanVars>>

\* Cell 6, run once the loop has ended: report_df = pd.DataFrame(all_reports).
Export ==
    /\ bpc = "loop"
    /\ row_i = Len(patients_df)
    /\ report_df' = all_reports
    /\ bpc' = "done"
    /\ UNCHANGED <<X_card_base, X_mob_base, patients_df, row_i, loc, all_reports>>
    /\ UNCHANGED <<extractVars, validateVars, v1, cleanVars>>

BatchNext == ScorePatient \/ ScorePatientRaises \/ Export

\* The state when the batch cell is about to run.
BatchInit ==
    /\ patients_df \in SeqUpTo(PatientRows, MaxPatients)
    /\ X_card_base = CardBaseTable
    /\ X_mob_base = MobBaseTable
    /\ row_i = 0
    /\ loc = LocIdle
    /\ all_reports = <<>>
    /\ report_df = <<>>
    /\ bpc = "loop"
    /\ v1 = V1Idle
    /\ treadmill = <<>>
    /\ epc = "idle"
    /\ pending = <<>>
    /\ seen = <<>>
    /\ results = <<>>
    /\ input_columns = {}
    /\ required_cols = <<>>
    /\ vpc = "idle"
    /\ verror = <<>>
    /\ wearable_merged = <<>>
    /\ wearable_cleaned = <<>>
    /\ recleaned = <<>>
    /\ cpc = "idle"

SpecBatch == BatchInit /\ [][BatchNext]_vars

(***************************************************************************)
(* Properties of compute_recovery_metrics                                  *)
(***************************************************************************)
\* The heart-rate peak of a cleaned group and the time it is first attained.
PeakHR(group) == MaxOf({group[j].HR : j \in 1..Len(group)})

PeakTime(group) == MinOf({group[j].time : j \in {i \in 1..Len(group) : group[i].HR = PeakHR(group)}})

\* A row is recorded at or after one recovery window past the peak.
HasRecoveryRow(group) ==
    \E j \in 1..Len(group) : group[j].time >= PeakTime(group) + RecoveryWindow

\* A session that yields no markers: nothing left after dropping incomplete
\* rows, or the marker computation raises.
Malformed(group) == group = <<>> \/ ~HasRecoveryRow(group)

\* The visited sessions that are well formed, in visiting order.
WellFormedSeen == SelectSeq(seen, LAMBDA s : ~Malformed(s.group))

\* C4: extraction never raises; a malformed session contributes no row, every
\* well-formed session contributes exactly one row (its subject's) whatever the
\* other sessions are, and there are at most as many rows as distinct test ids.
ExtractionIsolatesMalformedSessions ==
    /\ epc # "raised"
    /\ Len(results) <= Cardinality({treadmill[i].ID_test : i \in 1..Len(treadmill)})
    /\ Len(results) = Len(WellFormedSeen)
    /\ \A k \in 1..Len(WellFormedSeen) :
          k <= Len(results) => results[k].Subject_ID = SubjectOf(WellFormedSeen[k].test_id)

\* A malformed session was visited before a well-formed one, and the
\* extraction returned the single row of the well-formed one.
MalformedThenWellFormedReturned ==
    /\ epc = "returned"
    /\ Len(seen) = 2
    /\ seen[1].group # <<>>
    /\ Malformed(seen[1].group)
    /\ ~Malformed(seen[2].group)
    /\ Len(results) = 1

\* The first row of a cleaned group at or after one window past the peak.
FirstRecoveryRow(group) ==
    group[MinOf({j \in 1..Len(group) : group[j].time >= PeakTime(group) + RecoveryWindow})]

\* The visited sessions that have a recovery row, in visiting order.
RecoverableSeen == SelectSeq(seen, LAMBDA s : s.group # <<>> /\ HasRecoveryRow(s.group))

\* C5: one_minute_heart_rate_recovery is the maximum heart rate minus the heart
\* rate of the first row at or after t_peak + 60, t_peak being the time of the
\* first row that attains the maximum; a session without such a row gives no row.
HeartRateRecoveryAfterOneMinute ==
    /\ Len(results) = Len(RecoverableSeen)
    /\ \A k \in 1..Len(RecoverableSeen) :
          k <= Len(results) =>
              results[k].HR_recovery_1min =
                  PeakHR(RecoverableSeen[k].group) - FirstRecoveryRow(RecoverableSeen[k].group).HR

\* A session whose peak is followed exactly 60 later by a lower heart rate
\* gave a row, after a session whose peak is too close to its end gave none.
RecoveryRowExactlyAtWindow ==
    /\ epc = "returned"
    /\ Len(seen) = 2
    /\ seen[1].group # <<>>
    /\ ~HasRecoveryRow(seen[1].group)
    /\ HasRecoveryRow(seen[2].group)
    /\ FirstRecoveryRow(seen[2].group).time = PeakTime(seen[2].group) + RecoveryWindow
    /\ Len(results) = 1
    /\ results[1].HR_recovery_1min = 1

\* C6: a session whose peak oxygen uptake is zero is skipped, so no row of the
\* output has a zero VO2_max.
ZeroPeakOxygenSessionSkipped ==
    \A k \in 1..Len(results) : results[k].VO2_max # 0

(***************************************************************************)
(* V1 cell 4: validate_features                                            *)
(***************************************************************************)
MaxRequired == 3

FeatureNames == {"VO2_max", "HR_recovery_1min", "VE_VO2_ratio"}

\* Variant: only the first missing name is kept.
MissingFirstOnly(required, columns) ==
    LET all == SelectSeq(required, LAMBDA col : col \notin columns)
    IN  IF all = <<>> THEN <<>> ELSE <<all[1]>>

\* missing = [col for col in required_cols if col not in input_df.columns]
Missing(required, columns) == SelectSeq(required, LAMBDA col : col \notin columns)

\* validate_features(input_df, required_cols, model_name)
Validate ==
    /\ vpc = "call"
    /\ LET missing == Missing(required_cols, input_columns)
       IN  IF missing # <<>>
           THEN /\ vpc' = "raised"             \* raise ValueError(... {missing})
                /\ verror' = missing
           ELSE /\ vpc' = "returned"
                /\ verror' = <<>>
    /\ UNCHANGED <<input_columns, required_cols>>
    /\ UNCHANGED <<extractVars, v1, batchVars, cleanVars>>

ValidateNext == Validate

\* The state when validate_features is called on a frame and a feature list.
ValidateInit ==
    /\ required_cols \in SeqUpTo(FeatureNames, MaxRequired)
    /\ input_columns \in SUBSET FeatureNames
    /\ vpc = "call"
    /\ verror = <<>>
    /\ treadmill = <<>>
    /\ epc = "idle"
    /\ pending = <<>>
    /\ seen = <<>>
    /\ results = <<>>
    /\ v1 = V1Idle
    /\ X_card_base = <<>>
    /\ X_mob_base = <<>>
    /\ patients_df = <<>>
    /\ row_i = 0
    /\ loc = LocIdle
    /\ all_reports = <<>>
    /\ report_df = <<>>
    /\ bpc = "idle"
    /\ wearable_merged = <<>>
    /\ wearable_cleaned = <<>>
    /\ recleaned = <<>>
    /\ cpc = "idle"

SpecValidate == ValidateInit /\ [][ValidateNext]_vars

(***************************************************************************)
(* V2 cell 4: cleaning of the wearable table                               *)
(*                                                                         *)
(* A table maps a column name to its cells. A cell is a number (the        *)
(* decimal num / 10^exp), NaN, or a text given as its characters.          *)
(***************************************************************************)
MaxRows == 2

NaN == [t |-> "nan", num |-> 0, exp |-> 0, s |-> <<>>]

Float(num, exp) == [t |-> "num", num |-> num, exp |-> exp, s |-> <<>>]

Str(s) == [t |-> "str", num |-> 0, exp |-> 0, s |-> s]

\* The columns a wearable table may have.
ColumnNames == {"Patient ID", "Stride time, s"}

\* The cells a column is filled from: a number, a missing value, "1.5±2",
\* "a", "~-3±1" and "±".
CellValues ==
    { Float(5, 0),
      NaN,
      Str(<<"1", ".", "5", "±", "2">>),
      Str(<<"a">>),
      Str(<<"~", "-", "3", "±", "1">>),
      Str(<<"±">>) }

\* The tables of 1..MaxRows rows over any of the columns.
Tables ==
    UNION { UNION { [cols -> [1..n -> CellValues]] : cols \in SUBSET ColumnNames }
            : n \in 1..MaxRows }

DigitChars == <<"0", "1", "2", "3", "4", "5", "6", "7", "8", "9">>

IsDigit(c) == c \in Range(DigitChars)

DigitValue(c) == (CHOOSE k \in 1..Len(DigitChars) : DigitChars[k] = c) - 1

\* w is matched as a whole by [-+]?[0-9]*\.?[0-9]+ : an optional sign, then
\* digits with at most one dot among them, the last character a digit.
IsNumberText(w) ==
    LET body == IF w # <<>> /\ Head(w) \in {"-", "+"} THEN Tail(w) ELSE w
    IN  /\ body # <<>>
        /\ IsDigit(body[Len(body)])
        /\ \A k \in 1..Len(body) : IsDigit(body[k]) \/ body[k] = "."
        /\ Cardinality({k \in 1..Len(body) : body[k] = "."}) <= 1

\* What the pattern's group captures in s: the search takes the leftmost
\* position a match starts at and the greedy quantifiers the longest match
\* from there; <<>> when nothing matches.
FirstMatch(s) ==
    LET starts == {i \in 1..Len(s) :
                      \E j \in i..Len(s) : IsNumberText(SubSeq(s, i, j))}
    IN  IF starts = {} THEN <<>>
        ELSE LET i == MinOf(starts)
                 j == MaxOf({k \in i..Len(s) : IsNumberText(SubSeq(s, i, k))})
             IN  SubSeq(s, i, j)

RECURSIVE DigitsValue(_)
DigitsValue(d) ==
    IF d = <<>> THEN 0
    ELSE DigitsValue(SubSeq(d, 1, Len(d) - 1)) * 10 + DigitValue(d[Len(d)])

\* num / 10^exp without trailing zeros of the fraction.
RECURSIVE Normalized(_, _)
Normalized(num, exp) ==
    IF exp > 0 /\ num % 10 = 0 THEN Normalized(num \div 10, exp - 1)
    ELSE Float(num, exp)

\* float(w) of a matched text w.
ParseFloat(w) ==
    LET negative == Head(w) = "-"
        body     == IF Head(w) \in {"-", "+"} THEN Tail(w) ELSE w
        dots     == {k \in 1..Len(body) : body[k] = "."}
        exp      == IF dots = {} THEN 0 ELSE Len(body) - MaxOf(dots)
        digits   == SelectSeq(body, IsDigit)
        mag      == Normalized(DigitsValue(digits), exp)
    IN  IF negative THEN Float(0 - mag.num, mag.exp) ELSE mag

\* df[col].dtype == 'object': the column holds a text.
IsObject(column) == \E k \in 1..Len(column) : column[k].t = "str"

\* df[col].str.contains("±").any(): cells that are no text give NaN, which
\* any() skips.
ContainsPlusMinus(column) ==
    \E k \in 1..Len(column) : column[k].t = "str" /\ "±" \in Range(column[k].s)

\* .str.extract(pattern).astype(float) on one cell: a text without a match
\* and a cell that is no text give NaN.
ExtractCell(c) ==
    IF c.t # "str" THEN NaN
    ELSE LET w == FirstMatch(c.s)
         IN  IF w = <<>> THEN NaN ELSE ParseFloat(w)

clean_numeric_columns(df) ==
    [col \in DOMAIN df |->
        IF IsObject(df[col]) /\ ContainsPlusMinus(df[col])
        THEN [k \in 1..Len(df[col]) |-> ExtractCell(df[col][k])]
        ELSE df[col]]

\* select_dtypes(include=[np.number])
SelectNumber(df) ==
    [col \in {c \in DOMAIN df : ~IsObject(df[c])} |-> df[col]]

\* Variant: the named columns are kept.
DropColumnsKept(df, columns) == df

\* drop(columns=columns, errors="ignore")
DropColumns(df, columns) ==
    [col \in DOMAIN df \ columns |-> df[col]]

\* fillna(0)
FillNa(df) ==
    [col \in DOMAIN df |->
        [k \in 1..Len(df[col]) |->
            IF df[col][k].t = "nan" THEN Float(0, 0) ELSE df[col][k]]]

\* wearable_cleaned = clean_numeric_columns(wearable_merged): the columns are
\* converted in place and the same frame is returned.
CleanColumns ==
    /\ cpc = "clean"
    /\ wearable_merged' = clean_numeric_columns(wearable_merged)
    /\ wearable_cleaned' = wearable_merged'
    /\ cpc' = "select"
    /\ UNCHANGED recleaned
    /\ UNCHANGED <<extractVars, validateVars, v1, batchVars>>

\* wearable_cleaned = wearable_cleaned.select_dtypes(...).drop(...).fillna(0)
SelectNumeric ==
    /\ cpc = "select"
    /\ wearable_cleaned' =
           FillNa(DropColumns(SelectNumber(wearable_cleaned), {"Patient ID"}))
    /\ cpc' = "cleaned"
    /\ UNCHANGED <<wearable_merged, recleaned>>
    /\ UNCHANGED <<extractVars, validateVars, v1, batchVars>>

\* The two statements once more, on the cleaned table.
CleanAgain ==
    /\ cpc = "cleaned"
    /\ wearable_cleaned' = clean_numeric_columns(wearable_cleaned)
    /\ recleaned' =
           FillNa(DropColumns(SelectNumber(wearable_cleaned'), {"Patient ID"}))
    /\ cpc' = "again"
    /\ UNCHANGED wearable_merged
    /\ UNCHANGED <<extractVars, validateVars, v1, batchVars>>

CleanNext == CleanColumns \/ SelectNumeric \/ CleanAgain

\* The state when the merged wearable table is about to be cleaned.
CleanInit ==
    /\ wearable_merged \in Tables
    /\ wearable_cleaned = <<>>
    /\ recleaned = <<>>
    /\ cpc = "clean"
    /\ treadmill = <<>>
    /\ epc = "idle"
    /\ pending = <<>>
    /\ seen = <<>>
    /\ results = <<>>
    /\ input_columns = {}
    /\ required_cols = <<>>
    /\ vpc = "idle"
    /\ verror = <<>>
    /\ v1 = V1Idle
    /\ X_card_base = <<>>
    /\ X_mob_base = <<>>
    /\ patients_df = <<>>
    /\ row_i = 0
    /\ loc = LocIdle
    /\ all_reports = <<>>
    /\ report_df = <<>>
    /\ bpc = "idle"

SpecClean == CleanInit /\ [][CleanNext]_vars

(***************************************************************************)
(* Properties of validate_features                                         *)
(***************************************************************************)
\* How many entries of seq equal x.
Count(seq, x) == Cardinality({i \in 1..Len(seq) : seq[i] = x})

\* C3 as claimed: validation fails iff some required name is no column, and
\* the error then lists every missing required name exactly once.
ValidationListsEachMissingNameOnce ==
    vpc \in {"raised", "returned"} =>
        /\ (vpc = "raised") <=> ~(Range(required_cols) \subseteq input_columns)
        /\ vpc = "raised" =>
              \A n \in FeatureNames :
                  Count(verror, n) = IF n \in Range(required_cols) \ input_columns THEN 1 ELSE 0

\* C3 as amended: validation fails iff some required name is no column, and
\* the error then lists every missing required name (all of them, no other
\* name) once per occurrence in the required list, hence exactly once when the
\* required list repeats no name.
ValidationListsEachMissingNamePerOccurrence ==
    vpc \in {"raised", "returned"} =>
        /\ (vpc = "raised") <=> ~(Range(required_cols) \subseteq input_columns)
        /\ vpc = "raised" =>
              /\ \A n \in FeatureNames :
                    Count(verror, n) = IF n \in input_columns THEN 0 ELSE Count(required_cols, n)
              /\ (\A n \in FeatureNames : Count(required_cols, n) <= 1) =>
                    \A n \in Range(required_cols) \ input_columns : Count(verror, n) = 1

\* Validation failed on a frame that has one required column and lacks two
\* others, and the error names both.
TwoMissingNamesReported ==
    /\ vpc = "raised"
    /\ Len(required_cols) = 3
    /\ Cardinality(Range(required_cols)) = 3
    /\ Cardinality(input_columns) = 1
    /\ Len(verror) = 2
    /\ verror[1] # verror[2]

(***************************************************************************)
(* Properties of the score chain and its interpretation                    *)
(***************************************************************************)
\* C1: in every pipeline variant the final score handed downstream, from
\* which recovery_days is derived and which is reported, lies in [0, 3].
FinalScoreClampedInEveryVariant ==
    /\ v1.pc \in {"translate", "report", "done"} =>
          /\ 0 <= v1.final_score
          /\ v1.final_score <= 3 * ScoreScale
    /\ row_i > 0 =>
          /\ 0 <= loc.final_score
          /\ loc.final_score <= 3 * ScoreScale
          /\ \A k \in 1..Len(all_reports) :
                0 <= all_reports[k].Final_Score /\ all_reports[k].Final_Score <= 300

\* The patient fields one pass of the batch loop reads.
PatientFields ==
    {"VO2_max", "HR_recovery_1min", "VE_VO2_ratio", "Velocity_kmph", "Cadence", "Stride_time"}

\* C2: when the batch run has ended, the batch result holds the record of
\* every subject whose row is complete, other than the one whose processing
\* failed: a failure of one subject does not stop the others.
BatchSurvivesSubjectFailure ==
    bpc \in {"done", "raised"} =>
        \A k \in 1..Len(patients_df) :
            (/\ PatientFields \subseteq DOMAIN patients_df[k]
             /\ (bpc = "raised" => k # row_i + 1))
            => \E j \in 1..Len(report_df) : report_df[j].Patient_ID = k

\* C7 as claimed: Recovery_Days is 180 - final_score * 50 rounded to the
\* nearest integer.
BatchRecoveryDaysRounded ==
    row_i > 0 =>
        /\ loc.recovery_days = RoundHalfEven(180 * ScoreScale - loc.final_score * 50, ScoreScale)
        /\ all_reports[row_i].Recovery_Days = loc.recovery_days

\* C7 as amended: Recovery_Days is 180 - final_score * 50 truncated to an
\* integer: the largest integer not above it, the value being positive for
\* every clamped final_score in [0, 3].
BatchRecoveryDaysTruncated ==
    row_i > 0 =>
        /\ 0 <= loc.final_score /\ loc.final_score <= 3 * ScoreScale
        /\ loc.recovery_days * ScoreScale <= 180 * ScoreScale - loc.final_score * 50
        /\ 180 * ScoreScale - loc.final_score * 50 < (loc.recovery_days + 1) * ScoreScale
        /\ all_reports[row_i].Recovery_Days = loc.recovery_days

\* A pass ended with final_score 0.001: 179.95 days, reported as 179.
RecoveryDaysFractionDropped ==
    /\ row_i > 0
    /\ bpc = "loop"
    /\ loc.final_score = 1
    /\ loc.recovery_days = 179
    /\ all_reports[row_i].Recovery_Days = 179

\* C8: the batch pipeline converts the final score with the documented
\* formula, recovery_days = round((3.0 - final_score) * 30 + 60).
BatchRecoveryDaysFollowPolicyA ==
    row_i > 0 =>
        loc.recovery_days =
            RoundHalfEven((3 * ScoreScale - loc.final_score) * 30 + 60 * ScoreScale, ScoreScale)

\* C9 as claimed: percentile(score, scale) = min(round(score / scale * 100), 100).
PercentileRoundsToNearest ==
    v1.pc \in {"report", "done"} =>
        /\ v1.cardiac_percentile =
              Min2(RoundHalfEven(v1.cardiac_score * 100, 120 * ScoreScale), 100)
        /\ v1.mobility_percentile =
              Min2(RoundHalfEven(v1.mobility_score * 100, 160 * ScoreScale), 100)

\* p is score / scale * 100 truncated toward zero and capped at 100.
IsTruncatedPercentile(p, score, scale) ==
    LET num == score * 100
        den == scale * ScoreScale
    IN  IF num >= 100 * den THEN p = 100
        ELSE IF num >= 0 THEN p * den <= num /\ num < (p + 1) * den
        ELSE p <= 0 /\ (p - 1) * den < num /\ num <= p * den

\* C9 as amended: percentile(score, scale) = min(int(score / scale * 100), 100),
\* the quotient truncated toward zero: capped at 100, never floored at 0, and
\* negative for a score at or below -scale/100; percentile(-3.21, 120) = -2.
PercentileTruncatesTowardZero ==
    v1.pc \in {"report", "done"} =>
        /\ IsTruncatedPercentile(v1.cardiac_percentile, v1.cardiac_score, 120)
        /\ IsTruncatedPercentile(v1.mobility_percentile, v1.mobility_score, 160)
        /\ v1.cardiac_percentile <= 100
        /\ v1.cardiac_score = Hundredths(-321) => v1.cardiac_percentile = -2

\* The recorded run: cardiac score -3.21 reported as the -2 percentile.
NegativePercentileReported ==
    /\ v1.pc = "done"
    /\ v1.cardiac_score = Hundredths(-321)
    /\ v1.cardiac_percentile = -2
    /\ v1.mobility_score = Hundredths(100)
    /\ v1.mobility_percentile = 0

\* The four recommendation rules of the batch run.
RuleFires(k, cardiac_score, mobility_score) ==
    CASE k = 1 -> cardiac_score < 40 * ScoreScale
      [] k = 2 -> mobility_score < 100 * ScoreScale
      [] k = 3 -> cardiac_score > 80 * ScoreScale /\ mobility_score > 140 * ScoreScale
      [] k = 4 -> mobility_score > 120 * ScoreScale /\ cardiac_score < 50 * ScoreScale

RuleMessage(k) ==
    CASE k = 1 -> "Increase supervised cardio rehab"
      [] k = 2 -> "Continue mobility strengthening"
      [] k = 3 -> "Ready for transition to independent rehab"
      [] k = 4 -> "High mobility, monitor cardiac stress tolerance"

\* C10: the recommendation list of a pass is the messages of exactly the rules
\* whose condition holds, in rule order, each once; no rule suppresses a later
\* one, so scores 10 and 10 give rules 1 and 2; Suggestions joins them by "; ".
SuggestionsAreTheFiringRulesInOrder ==
    (row_i > 0 /\ bpc # "raised") =>
        LET fired == SortedSeq({k \in 1..4 :
                        RuleFires(k, loc.cardiac_score, loc.mobility_score)})
        IN  /\ Len(loc.suggestions) = Len(fired)
            /\ \A j \in 1..Len(fired) :
                  j <= Len(loc.suggestions) => loc.suggestions[j] = RuleMessage(fired[j])
            /\ all_reports[row_i].Suggestions = Join(loc.suggestions)
            /\ (loc.cardiac_score = 10 * ScoreScale /\ loc.mobility_score = 10 * ScoreScale) =>
                  all_reports[row_i].Suggestions =
                      "Increase supervised cardio rehab; Continue mobility strengthening"

\* A pass scored cardiac 10 and mobility 10 and reported both recommendations.
BothLowScoresGiveTwoSuggestions ==
    /\ row_i > 0
    /\ bpc # "raised"
    /\ loc.cardiac_score = 10 * ScoreScale
    /\ loc.mobility_score = 10 * ScoreScale
    /\ Len(loc.suggestions) = 2
    /\ all_reports[row_i].Suggestions =
          "Increase supervised cardio rehab; Continue mobility strengthening"

EcgInjected == {"VO2_max", "HR_recovery_1min", "VE_VO2_ratio"}
MobInjected == {"Velocity, km/h", "Cadence, steps/min", "Stride time, s"}

\* The frame holds the columns of the base row b (and the injected ones), and
\* every column that is not injected has the value it has in b.
KeepsSourceValues(frame, b, injected) ==
    /\ DOMAIN frame = DOMAIN b \cup injected
    /\ \A k \in DOMAIN b \ injected : frame[k] = b[k]

\* C12: injecting a patient's markers over a background feature row changes
\* only the overridden keys: after a completed injection each overridden key
\* holds the patient's value, every other key of the row keeps the value of
\* the base-table row it was sampled from, and the base tables are unchanged.
InjectionChangesOnlyOverriddenKeys ==
    /\ X_card_base = CardBaseTable
    /\ X_mob_base = MobBaseTable
    /\ (row_i > 0 /\ bpc # "raised") =>
          LET row == patients_df[row_i]
          IN  /\ \E e \in 1..Len(X_card_base) :
                    KeepsSourceValues(loc.ecg_row, X_card_base[e], EcgInjected)
              /\ \E m \in 1..Len(X_mob_base) :
                    KeepsSourceValues(loc.mob_row, X_mob_base[m], MobInjected)
              /\ loc.ecg_row["VO2_max"] = row["VO2_max"]
              /\ loc.ecg_row["HR_recovery_1min"] = row["HR_recovery_1min"]
              /\ loc.ecg_row["VE_VO2_ratio"] = row["VE_VO2_ratio"]
              /\ loc.mob_row["Velocity, km/h"] = row["Velocity_kmph"]
              /\ loc.mob_row["Cadence, steps/min"] = row["Cadence"]
              /\ loc.mob_row["Stride time, s"] = row["Stride_time"]

\* A completed pass whose rows were sampled from different base rows and now
\* differ from them in the injected columns.
InjectedOverSecondBaseRow ==
    /\ row_i > 0
    /\ bpc = "loop"
    /\ loc.ecg_row["background"] = CardBaseTable[2]["background"]
    /\ loc.mob_row["background"] = MobBaseTable[1]["background"]
    /\ loc.ecg_row["VO2_max"] = patients_df[row_i]["VO2_max"]
    /\ loc.ecg_row["VO2_max"] # CardBaseTable[2]["VO2_max"]
    /\ loc.mob_row["Cadence, steps/min"] = patients_df[row_i]["Cadence"]
    /\ loc.mob_row["Cadence, steps/min"] # MobBaseTable[1]["Cadence, steps/min"]

(***************************************************************************)
(* Properties of the cleaning of the wearable table                        *)
(***************************************************************************)
\* Every column of df is numeric and no cell is missing.
AllNumericNoMissing(df) ==
    \A col \in DOMAIN df : \A k \in 1..Len(df[col]) : df[col][k].t = "num"

\* C13 as claimed: the cleaning of a table whose columns are all numeric with
\* no missing value returns the same table (same columns, same values), and
\* the cleaning of a cleaned table returns the cleaned table. wearable_merged
\* is the table as clean_numeric_columns has left it, and when it is all
\* numeric clean_numeric_columns changes nothing in it.
CleaningReturnsNumericTableUnchanged ==
    cpc \in {"cleaned", "again"} =>
        /\ AllNumericNoMissing(wearable_merged) => wearable_cleaned = wearable_merged
        /\ cpc = "again" => recleaned = wearable_cleaned

\* C13: the cleaning of a table whose columns are all numeric with no missing
\* value returns that table without its "Patient ID" column, the other
\* columns and their values as they were; and the cleaning of a cleaned table
\* returns the cleaned table, whatever table the first cleaning started from.
CleaningKeepsNumericTableButPatientId ==
    cpc \in {"cleaned", "again"} =>
        /\ AllNumericNoMissing(wearable_merged) =>
              /\ DOMAIN wearable_cleaned = DOMAIN wearable_merged \ {"Patient ID"}
              /\ \A col \in DOMAIN wearable_cleaned :
                    wearable_cleaned[col] = wearable_merged[col]
        /\ cpc = "again" => recleaned = wearable_cleaned

\* An all-numeric table with a "Patient ID" column has been cleaned twice:
\* the column is gone after the first cleaning and the second changes nothing.
NumericPatientIdColumnDropped ==
    /\ cpc = "again"
    /\ AllNumericNoMissing(wearable_merged)
    /\ DOMAIN wearable_merged = {"Patient ID", "Stride time, s"}
    /\ DOMAIN wearable_cleaned = {"Stride time, s"}
    /\ wearable_cleaned["Stride time, s"][1] = Float(15, 1)
    /\ recleaned = wearable_cleaned

(***************************************************************************)
(* Properties of the overlap of the batch recommendation rules             *)
(***************************************************************************)
\* The recommendation lists made of no rule, one rule, rules 1 and 2, or
\* rules 1 and 4.
PairwiseOverlapLists ==
    {<<>>} \cup {<<RuleMessage(k)>> : k \in 1..4}
           \cup {<<RuleMessage(1), RuleMessage(2)>>, <<RuleMessage(1), RuleMessage(4)>>}

\* C14: in batch mode the recommendation list of a pass never has more than
\* two entries: rule 3 never comes with rule 1, 2 or 4, rule 2 never comes
\* with rule 4, and the list is empty, a single rule, rules 1 and 2, or
\* rules 1 and 4.
RecommendationRulesOverlapPairwise ==
    (row_i > 0 /\ bpc # "raised") =>
        LET given == Range(loc.suggestions)
        IN  /\ Len(loc.suggestions) <= 2
            /\ RuleMessage(3) \in given => given = {RuleMessage(3)}
            /\ ~(RuleMessage(2) \in given /\ RuleMessage(4) \in given)
            /\ loc.suggestions \in PairwiseOverlapLists

\* A pass with a low cardiac score and a high mobility score got rules 1
\* and 4 together.
RulesOneAndFourTogether ==
    /\ row_i > 0
    /\ bpc # "raised"
    /\ loc.cardiac_score < 40 * ScoreScale
    /\ loc.mobility_score > 120 * ScoreScale
    /\ loc.suggestions = <<RuleMessage(1), RuleMessage(4)>>

====
